---- MODULE Spec2Model ----
(***************************************************************************)
(* dog_pool: connection wrappers in front of a Redis server (pipelined)   *)
(* and a Thrift/HBase server (forwarding).                                *)
(*                                                                         *)
(* One connection object is modelled; `kind` says which wrapper it is.    *)
(* Every public method is one action.  The methods themselves are         *)
(* operators from a "world" record (the connection's fields, the state of *)
(* the underlying client library and of the network, and the registers of *)
(* the running call) to the world after the method.  What the environment *)
(* decides (does a dial succeed, what does the server answer, does the    *)
(* underlying close report an error) is a parameter of the operator and   *)
(* is drawn with \E by the action.                                        *)
(*                                                                         *)
(* The StopWatch and the batch command factories touch no connection and  *)
(* have specifications of their own (SpecStopWatch, SpecFactories).       *)
(*                                                                         *)
(* Not modelled: the text of log lines, Trace-level logging, and the      *)
(* StopWatch timing around the calls (they change no connection state).   *)
(***************************************************************************)
EXTENDS Integers, Sequences, FiniteSets, TLC

\* ------------------------------------------------------------------ bounds
\* Handles that may be dialed and not yet closed at the same time.
MaxHandles == 2
\* Commands handed to Append since the pipeline was last empty.
MaxSent == 2
\* Commands in one call of BatchCommands.
MaxBatch == 2
\* Instants of the clock a StopWatch reads.
MaxClock == 4
\* Lines a StopWatch writes to its Logger.
MaxLines == 2
\* Sources given to a bit-operation factory.
MaxSources == 2

\* --------------------------------------------------------------- constants
\* time.Duration(10) * time.Second, in seconds.
DefaultTimeout == 10

\* The nil client pointer.
Nil == 0
\* The nil error.
NoError == "nil"
\* Error returned by a failed dial (redis.DialTimeout / HbaseClient.Open).
DialError == "dial_error"
\* Error returned by the underlying client's Close.
CloseError == "close_error"
\* ErrConnectionIsClosed.
ErrConnectionIsClosed == "connection_closed"

\* Timeout values a caller may construct the connection with (seconds);
\* 0 is the unset duration.
Timeouts == {0, 3}

\* Faulty variant of TransientErrors: the switch lacks the case of redis.ParseError.
TransientErrorsNoParse == {"auth", "loading", "queue_empty"}

\* The four error contents GetReply's switch lists: redis.AuthError,
\* redis.LoadingError, redis.ParseError, redis.PipelineQueueEmptyError.
TransientErrors == {"auth", "loading", "parse", "queue_empty"}
\* A representative of every other error content (the switch's default).
OtherError == "other"

\* Requests a caller issues: a command without arguments ("ping", which is
\* also what Ping sends) and a command with one argument.
PingReq == [cmd |-> "ping", args |-> <<>>]
GetReq == [cmd |-> "GET", args |-> <<"k">>]
Reqs == {PingReq, GetReq}
NoReq == [cmd |-> "", args |-> <<>>]

\* What the server (through the underlying client) may answer to a queued
\* request: a non-error reply, one of the transient errors the server or the
\* protocol parser produces, or any other error.
ReplyKinds == {"ok", "auth", "loading", "parse", OtherError}
\* The kinds drawn for the replies within a batch: a non-error reply, one
\* transient error (the switch treats the four alike) and one other error.
BatchReplyKinds == {"ok", "loading", OtherError}

\* ----------------------------------------------------------------- replies
\* redis.Reply, reduced to its Type (error or not), its Err and, as a tag,
\* the request it answers.
MkReply(kind, req) ==
    IF kind = "ok"
    THEN [type |-> "status", err |-> NoError, req |-> req]
    ELSE [type |-> "error", err |-> kind, req |-> req]
\* The nil *redis.Reply of a batch command that has no reply assigned.
NoReply == [type |-> "nil", err |-> NoError, req |-> NoReq]
\* &redis.Reply{Type: redis.ErrorReply, Err: ErrConnectionIsClosed}
ClosedReply == [type |-> "error", err |-> ErrConnectionIsClosed, req |-> NoReq]

VARIABLES
    kind,       \* "redis" or "thrift": which wrapper the object is
    client,     \* p.client: Nil or the handle held
    Timeout,    \* p.Timeout (seconds)
    live,       \* handles dialed and not closed (network side)
    pipeline,   \* p.client's queue of appended, not yet answered requests
    sent,       \* history: requests handed to Append since the pipeline was last empty
    gotten,     \* history: requests whose replies GetReply returned since then
    held,       \* does the caller hold the object (FALSE: a factory returned nil)
    last,       \* the last call: its name, inputs, pre-state and results
    watch,      \* a StopWatch: its Time, its Duration and the lines of its Logger
    clock,      \* the instant time.Now() returns
    lastWatch,  \* the last call on the StopWatch, and the watch before it
    made        \* the last call of a batch command factory: inputs and command

conn == <<kind, client, Timeout, live, pipeline, sent, gotten, held, last>>
tools == <<watch, clock, lastWatch, made>>
vars == <<conn, tools>>

\* ------------------------------------------------------------------- world
\* The registers of a call that has not started.
NoBatch == <<>>
World ==
    [client |-> client, Timeout |-> Timeout, live |-> live,
     pipeline |-> pipeline, sent |-> sent, gotten |-> gotten,
     ret |-> NoReply, err |-> NoError, out |-> 0, batch |-> NoBatch,
     backend |-> <<>>, events |-> <<>>, dialed |-> <<>>]

\* An event of the running call: a log line ("log_info", "log_warn",
\* "log_error") or a call into the underlying client or the network.
Emit(w, e) == [w EXCEPT !.events = Append(@, e)]

\* The smallest handle not in use.
Fresh(w) == CHOOSE h \in 1..(MaxHandles + 1) :
                /\ h \notin w.live
                /\ \A g \in 1..(h - 1) : g \in w.live

\* Faulty variant of SetClient: the queue of the client pointed to before is
\* kept, as if the pipeline belonged to the wrapper.
SetClientKeepsPipeline(w, h) == [w EXCEPT !.client = h]

\* p.client = h: the pipeline is the queue of the client pointed to, and a
\* client newly pointed to (or none) has nothing queued, so the history
\* restarts.
SetClient(w, h) ==
    [w EXCEPT !.client = h, !.pipeline = <<>>, !.sent = <<>>, !.gotten = <<>>]

\* --------------------------------------------------- the underlying client
\* redis.DialTimeout("tcp", p.Url, p.Timeout): a new client with an empty
\* queue, or an error. dialed keeps the timeout each dial of the call was
\* given.
Dial(w, dialOk) ==
    IF dialOk
    THEN [Emit(w, "dial_ok") EXCEPT !.live = @ \cup {Fresh(w)},
                                    !.out = Fresh(w), !.err = NoError,
                                    !.dialed = Append(@, w.Timeout)]
    ELSE [Emit(w, "dial_fail") EXCEPT !.out = Nil, !.err = DialError,
                                      !.dialed = Append(@, w.Timeout)]

\* p.client.Close(): the handle is closed whatever Close reports.
ClientClose(w, closeErr) ==
    [Emit(w, "client_close") EXCEPT !.live = @ \ {w.client}, !.err = closeErr]

\* p.client.Append(cmd, args...): queue the request.
ClientAppend(w, req) ==
    [Emit(w, "client_append") EXCEPT !.pipeline = Append(@, req)]

\* p.client.GetReply(): the reply to the oldest queued request, or an error
\* reply with PipelineQueueEmptyError if the queue is empty.
ClientGetReply(w, replyKind) ==
    LET reply == IF w.pipeline = <<>>
                 THEN MkReply("queue_empty", NoReq)
                 ELSE MkReply(replyKind, Head(w.pipeline))
    IN [Emit(w, "client_getreply") EXCEPT
            !.pipeline = IF @ = <<>> THEN <<>> ELSE Tail(@),
            !.backend = Append(@, reply),
            !.ret = reply]

\* ---------------------------------------------------------- RedisConnection
IsOpen(w) == Nil # w.client

IsClosed(w) == Nil = w.client

\* Faulty variant of Open: a zero Timeout is passed to the dial as it is.
OpenNoDefault(w, dialOk) ==
    LET w2 == Dial(w, dialOk)
    IN IF NoError # w2.err
       THEN Emit(w2, "log_error")
       ELSE [Emit(SetClient(w2, w2.out), "log_info") EXCEPT !.err = NoError]

\* Faulty variant of Open: the dial error is logged and swallowed.
OpenSwallowsError(w, dialOk) ==
    LET w1 == IF 0 = w.Timeout THEN [w EXCEPT !.Timeout = DefaultTimeout] ELSE w
        w2 == Dial(w1, dialOk)
    IN IF NoError # w2.err
       THEN [Emit(w2, "log_error") EXCEPT !.err = NoError]
       ELSE [Emit(SetClient(w2, w2.out), "log_info") EXCEPT !.err = NoError]

Open(w, dialOk) ==
    LET w1 == IF 0 = w.Timeout THEN [w EXCEPT !.Timeout = DefaultTimeout] ELSE w
        w2 == Dial(w1, dialOk)
    IN IF NoError # w2.err
       THEN Emit(w2, "log_error")
       ELSE [Emit(SetClient(w2, w2.out), "log_info") EXCEPT !.err = NoError]

\* Faulty variant of Close: the underlying client is closed but the pointer is kept.
CloseKeepsPointer(w, closeErr) ==
    LET w1 == IF Nil # w.client
              THEN ClientClose(w, closeErr)
              ELSE [w EXCEPT !.err = NoError]
    IN Emit(w1, "log_info")

\* Faulty variant of Close: the nil check is missing.
CloseUnconditionally(w, closeErr) ==
    Emit(SetClient(ClientClose(w, closeErr), Nil), "log_info")

Close(w, closeErr) ==
    LET w1 == IF Nil # w.client
              THEN ClientClose(w, closeErr)
              ELSE [w EXCEPT !.err = NoError]
    IN Emit(SetClient(w1, Nil), "log_info")

\* History: the caller hands req to Append on a connection that is open
\* (possibly just reopened).  The count restarts when the pipeline is empty.
RecordAppend(w, req) ==
    IF w.pipeline # <<>>
    THEN [w EXCEPT !.sent = Append(@, req)]
    ELSE [w EXCEPT !.sent = <<req>>, !.gotten = <<>>]

\* History: the k-th GetReply since the pipeline was last empty returns a
\* reply; the request it answers is kept for k up to the number of requests
\* handed to Append.
RecordGet(w) ==
    IF Len(w.gotten) < Len(w.sent)
    THEN [w EXCEPT !.gotten = Append(@, w.ret.req)]
    ELSE w

\* Faulty variant of AppendCmd: the command is queued twice (once by a retry).
AppendCmdTwice(w, req, dialOk) ==
    LET w1 == IF ~IsOpen(w) THEN Open(w, dialOk) ELSE [w EXCEPT !.err = NoError]
    IN IF NoError # w1.err
       THEN Emit(w1, "log_warn")
       ELSE ClientAppend(ClientAppend(RecordAppend(w1, req), req), req)

\* Faulty variant of AppendCmd: the early return after a failed Open is missing.
AppendCmdNoReturn(w, req, dialOk) ==
    LET w1 == IF ~IsOpen(w) THEN Open(w, dialOk) ELSE [w EXCEPT !.err = NoError]
    IN IF NoError # w1.err
       THEN ClientAppend(RecordAppend(Emit(w1, "log_warn"), req), req)
       ELSE ClientAppend(RecordAppend(w1, req), req)

\* Faulty variant of AppendCmd: a failed Open is tried a second time.
AppendCmdRetries(w, req, dialOk) ==
    LET w0 == IF ~IsOpen(w) THEN Open(w, dialOk) ELSE [w EXCEPT !.err = NoError]
        w1 == IF NoError # w0.err THEN Open(w0, dialOk) ELSE w0
    IN IF NoError # w1.err
       THEN Emit(w1, "log_warn")
       ELSE ClientAppend(RecordAppend(w1, req), req)

\* RedisConnection.Append (the name Append is taken by Sequences).
AppendCmd(w, req, dialOk) ==
    LET w1 == IF ~IsOpen(w) THEN Open(w, dialOk) ELSE [w EXCEPT !.err = NoError]
    IN IF NoError # w1.err
       THEN Emit(w1, "log_warn")
       ELSE ClientAppend(RecordAppend(w1, req), req)

\* Faulty variant of GetReply: a closed connection is reopened, as Append does.
GetReplyReopens(w, replyKind) ==
    LET w0 == IF ~IsOpen(w) THEN Open(w, TRUE) ELSE w
        w1 == RecordGet(ClientGetReply(w0, replyKind))
        reply == w1.ret
    IN IF reply.type = "error"
       THEN IF reply.err \in {"auth", "loading", "parse", "queue_empty"}
            THEN Emit(w1, "log_warn")
            ELSE [Close(Emit(w1, "log_error"), NoError) EXCEPT !.ret = reply]
       ELSE w1

\* Faulty variant of GetReply: every error reply is logged and ignored; none closes
\* the connection.
GetReplyNeverCloses(w, replyKind) ==
    IF ~IsOpen(w)
    THEN [w EXCEPT !.ret = ClosedReply]
    ELSE LET w1 == RecordGet(ClientGetReply(w, replyKind))
         IN IF w1.ret.type = "error" THEN Emit(w1, "log_warn") ELSE w1

GetReply(w, replyKind) ==
    IF ~IsOpen(w)
    THEN [w EXCEPT !.ret = ClosedReply]
    ELSE LET w1 == RecordGet(ClientGetReply(w, replyKind))
             reply == w1.ret
         IN IF reply.type = "error"
            THEN IF reply.err \in TransientErrors
                 THEN Emit(w1, "log_warn")
                 \* the error p.Close() returns is dropped
                 ELSE [Close(Emit(w1, "log_error"), NoError) EXCEPT !.ret = reply]
            ELSE w1

\* Append as a call: the dial's outcome is the network's choice, taken only
\* when Append dials.
AppendOutcomes(w, req) ==
    {AppendCmd(w, req, dialOk) :
        dialOk \in IF Nil # w.client THEN {TRUE} ELSE BOOLEAN}

\* GetReply as a call: the reply's kind is the server's choice, taken only
\* when a queued request is answered.
GetReplyOutcomes(w, kinds) ==
    {GetReply(w, replyKind) :
        replyKind \in IF Nil # w.client /\ w.pipeline # <<>>
                      THEN kinds ELSE {"ok"}}

\* Faulty variant of Cmd: the command is not appended before the reply is
\* read.
CmdNoAppend(w, req) == GetReplyOutcomes(w, ReplyKinds)

\* p.Append(cmd, args...); return p.GetReply()
Cmd(w, req) ==
    UNION {GetReplyOutcomes(a, ReplyKinds) : a \in AppendOutcomes(w, req)}

\* Faulty variant of Ping: only an error the server replied is reported.
PingHidesClosed(w) ==
    {[c EXCEPT !.err = IF c.ret = ClosedReply THEN NoError ELSE c.ret.err] :
        c \in Cmd(w, PingReq)}

\* return p.Cmd("ping").Err
Ping(w) == {[c EXCEPT !.err = c.ret.err] : c \in Cmd(w, PingReq)}

Client(w, dialOk) ==
    IF IsOpen(w)
    THEN [w EXCEPT !.out = w.client, !.err = NoError]
    ELSE LET w1 == Open(Emit(w, "log_warn"), dialOk)
         IN IF NoError # w1.err
            THEN [w1 EXCEPT !.out = Nil]
            ELSE [w1 EXCEPT !.out = w1.client, !.err = NoError]

\* errors.New("[BatchCommands] Connection closed while getting reply ...")
BatchError == "batch_connection_closed"

\* A RedisBatchCommand: its command and arguments (req) and its Reply.
BatchCommand(req) == [req |-> req, reply |-> NoReply]

\* First loop of BatchCommands: Append every command, in order.
RECURSIVE BatchAppends(_, _)
BatchAppends(w, index) ==
    IF index > Len(w.batch)
    THEN {w}
    ELSE UNION {BatchAppends(a, index + 1) :
                    a \in AppendOutcomes(w, w.batch[index].req)}

\* Faulty variant of BatchStore: the reply is assigned to a copy of the command
\* (ranging over values instead of pointers), so the caller's command keeps
\* no reply.
BatchStoreIntoCopy(w, index) == w

\* command.Reply = p.GetReply()
BatchStore(w, index) == [w EXCEPT !.batch[index].reply = w.ret]

\* Faulty variant of BatchReplies: the loop lacks the IsClosed check and drains on
\* after the connection was closed.
RECURSIVE BatchRepliesNoStop(_, _)
BatchRepliesNoStop(w, index) ==
    IF index > Len(w.batch)
    THEN {[w EXCEPT !.err = IF IsClosed(w) THEN BatchError ELSE NoError]}
    ELSE UNION {BatchRepliesNoStop(BatchStore(g, index), index + 1) :
                    g \in GetReplyOutcomes(w, BatchReplyKinds)}

\* Second loop of BatchCommands: one GetReply per command, in order; return
\* the error as soon as the connection is closed.
RECURSIVE BatchReplies(_, _)
BatchReplies(w, index) ==
    IF index > Len(w.batch)
    THEN {[w EXCEPT !.err = NoError]}
    ELSE UNION {LET w2 == BatchStore(g, index)
                IN IF IsClosed(w2)
                   THEN {[w2 EXCEPT !.err = BatchError]}
                   ELSE BatchReplies(w2, index + 1) :
                    g \in GetReplyOutcomes(w, BatchReplyKinds)}

BatchCommands(w, commands) ==
    UNION {BatchReplies(a, 1) :
            a \in BatchAppends([w EXCEPT !.batch = commands], 1)}

\* Faulty variant of makeAgressiveRedisConnection: the connection is not
\* closed when Ping fails.
makeAgressiveRedisConnectionNoClose(w) ==
    {IF NoError # c.err
     THEN [c EXCEPT !.out = 0]
     ELSE [c EXCEPT !.out = 1, !.err = NoError] : c \in Ping(w)}

\* makeAgressiveRedisConnection, from the object makeLazyRedisConnection
\* built: out is the connection returned (1) or nil (0).
makeAgressiveRedisConnection(w) ==
    {IF NoError # c.err
     THEN [Close(c, NoError) EXCEPT !.out = 0, !.err = c.err]
     ELSE [c EXCEPT !.out = 1, !.err = NoError] : c \in Ping(w)}

\* --------------------------------------------------------- ThriftConnection
\* Error and result of a forwarded operation of the underlying HbaseClient.
OpError == "op_error"
OpResult == 7

ThriftIsOpen(w) == Nil # w.client

ThriftIsClosed(w) == Nil = w.client

\* client := &thrift.HbaseClient{}; client.Open(p.Url, p.Timeout)
ThriftOpen(w, dialOk) ==
    LET w1 == IF 0 = w.Timeout THEN [w EXCEPT !.Timeout = DefaultTimeout] ELSE w
        w2 == Dial(w1, dialOk)
    IN IF NoError # w2.err
       THEN Emit(w2, "log_error")
       ELSE [Emit(SetClient(w2, w2.out), "log_info") EXCEPT !.err = NoError]

\* Faulty variant of ThriftSafeOpen: the connection is opened even when it
\* is open already.
ThriftSafeOpenAlwaysOpens(w, dialOk) == ThriftOpen(w, dialOk)

ThriftSafeOpen(w, dialOk) ==
    IF ThriftIsOpen(w)
    THEN [w EXCEPT !.err = NoError]
    ELSE ThriftOpen(w, dialOk)

\* Faulty variant of ThriftClose: the handle is kept when the underlying
\* close reports an error.
ThriftCloseKeepsOnError(w, closeErr) ==
    LET w1 == IF Nil # w.client
              THEN ClientClose(w, closeErr)
              ELSE [w EXCEPT !.err = NoError]
    IN IF NoError # w1.err
       THEN Emit(w1, "log_info")
       ELSE Emit(SetClient(w1, Nil), "log_info")

ThriftClose(w, closeErr) ==
    LET w1 == IF Nil # w.client
              THEN ClientClose(w, closeErr)
              ELSE [w EXCEPT !.err = NoError]
    IN Emit(SetClient(w1, Nil), "log_info")

\* The body of Ping is "return nil".
ThriftPing(w) == [w EXCEPT !.err = NoError]

\* p.client.AtomicIncrement(...) and the other operations of the catalogue:
\* the underlying client returns a result, or an error.
ClientOp(w, opOk) ==
    IF opOk
    THEN [Emit(w, "client_op") EXCEPT !.out = OpResult, !.err = NoError]
    ELSE [Emit(w, "client_op") EXCEPT !.out = 0, !.err = OpError]

\* Faulty variant of ThriftForward: the connection is left open when the
\* underlying operation fails.
ThriftForwardNoClose(w, dialOk, opOk) ==
    LET w1 == ThriftSafeOpen(w, dialOk)
    IN IF NoError # w1.err
       THEN [w1 EXCEPT !.out = 0]
       ELSE ClientOp(w1, opOk)

\* AtomicIncrement ... ScannerOpenWithStopTs: all follow this pattern.
ThriftForward(w, dialOk, opOk) ==
    LET w1 == ThriftSafeOpen(w, dialOk)
    IN IF NoError # w1.err
       THEN [w1 EXCEPT !.out = 0]
       ELSE LET w2 == ClientOp(w1, opOk)
            IN IF NoError # w2.err
               \* the error p.Close() returns is dropped
               THEN [ThriftClose(w2, NoError) EXCEPT !.err = w2.err]
               ELSE w2

\* makeAgressiveThriftConnection, from the object makeLazyThriftConnection
\* built: out is the connection returned (1) or nil (0).
makeAgressiveThriftConnection(w) ==
    LET c == ThriftPing(w)
    IN IF NoError # c.err
       THEN [ThriftClose(c, NoError) EXCEPT !.out = 0, !.err = c.err]
       ELSE [c EXCEPT !.out = 1, !.err = NoError]

\* --------------------------------------------------------------- StopWatch
\* The zero time.Time, for which IsZero() holds; time.Now() is never zero.
ZeroTime == 0

\* MakeStopWatch: Time and Duration have their zero values; Logger is the
\* sequence of the durations (ns) its Fine lines report.
MakeStopWatch == [Time |-> ZeroTime, Duration |-> 0, Logger |-> <<>>]

\* p.Time = time.Now(); p.Duration = 0
Start(p, now) == [p EXCEPT !.Time = now, !.Duration = 0]

\* Faulty variant of Stop: the duration is computed although Start was never
\* called.
StopUnstarted(p, now) == [p EXCEPT !.Duration = now - p.Time]

\* p.Duration = time.Since(p.Time), unless p.Time.IsZero()
Stop(p, now) ==
    IF p.Time = ZeroTime
    THEN p
    ELSE [p EXCEPT !.Duration = now - p.Time]

\* One Fine line if the duration is more than 0 ns.
LogDuration(p) ==
    IF p.Duration > 0
    THEN [p EXCEPT !.Logger = Append(@, p.Duration)]
    ELSE p

\* ------------------------------------------------- batch command factories
\* time.Second, in nanoseconds.
Second == 1000000000

\* A time.Duration d >= 0 is kept as the pair Seconds() splits it into:
\* sec = d / Second and nsec = d % Second.
DurationSecs == {0, 1, 89, 90, 16777215, 16777216}
DurationNanos == {0, 1, 500000000, 999999998, 999999999}
Durations == [sec : DurationSecs, nsec : DurationNanos]
NoDuration == [sec |-> 0, nsec |-> 0]

\* The binary exponent of float64(sec), for sec >= 1.
Exponent(sec) == CHOOSE e \in 0..30 : 2^e <= sec /\ sec < 2^(e + 1)

\* float64(sec) + float64(nsec)/1e9 is rounded to the nearest float64. The
\* float64s from sec up to sec + 1 are 2^-(52 - Exponent(sec)) apart, so the
\* sum rounds to sec + 1 when the nanoseconds missing to the next second
\* are at most half of that spacing (no tie occurs: 2^23 does not divide
\* Second).
RoundsUp(d) ==
    /\ d.sec >= 1
    /\ 52 - Exponent(d.sec) <= 28
    /\ Second - d.nsec <= Second \div 2^(52 - Exponent(d.sec) + 1)

\* expire_in.Seconds(): the float64, by its integral part and whether it has
\* a fractional part.
Seconds(d) ==
    IF RoundsUp(d)
    THEN [whole |-> d.sec + 1, fraction |-> FALSE]
    ELSE [whole |-> d.sec, fraction |-> d.nsec # 0]

\* int64(f) of a float64 f >= 0: the fractional part is dropped.
Int64(f) == f.whole

\* strconv's base-10 digits of n >= 0.
Digits == <<"0", "1", "2", "3", "4", "5", "6", "7", "8", "9">>
RECURSIVE FormatInt(_)
FormatInt(n) ==
    IF n < 10
    THEN Digits[n + 1]
    ELSE FormatInt(n \div 10) \o Digits[(n % 10) + 1]

\* &RedisBatchCommand{cmd, [][]byte{}, nil}
MakeRedisBatchCommand(cmd) == BatchCommand([cmd |-> cmd, args |-> <<>>])

\* The argument writers of RedisBatchCommand: each appends one argument.
WriteArg(c, bytes) == [c EXCEPT !.req.args = Append(@, bytes)]
\* A string is written as its bytes.
WriteStringArg(c, str) == WriteArg(c, str)
\* An integer is written as its base-10 digits.
WriteIntArg(c, n) == WriteArg(c, FormatInt(n))
\* One WriteStringArg per string, in order.
RECURSIVE WriteStringArgs(_, _)
WriteStringArgs(c, strs) ==
    IF strs = <<>>
    THEN c
    ELSE WriteStringArgs(WriteStringArg(c, Head(strs)), Tail(strs))

cmd_bitop == "BITOP"
cmd_bitop_and == "AND"
cmd_bitop_not == "NOT"
cmd_bitop_or == "OR"
cmd_expire == "EXPIRE"

\* EXPIRE <KEY> <SECONDS>
MakeRedisBatchCommandExpireIn(key, expire_in) ==
    WriteIntArg(WriteStringArg(MakeRedisBatchCommand(cmd_expire), key),
                Int64(Seconds(expire_in)))

\* BITOP AND <DEST> <SRC KEYS> ...
MakeRedisBatchCommandBitopAnd(dest, sources) ==
    WriteStringArgs(
        WriteStringArg(WriteArg(MakeRedisBatchCommand(cmd_bitop), cmd_bitop_and),
                       dest),
        sources)

\* Faulty variant of MakeRedisBatchCommandBitopNot: the source is written
\* before the destination.
MakeRedisBatchCommandBitopNotSwapped(dest, source) ==
    WriteStringArg(
        WriteStringArg(WriteArg(MakeRedisBatchCommand(cmd_bitop), cmd_bitop_not),
                       source),
        dest)

\* BITOP NOT <DEST> <SRC>
MakeRedisBatchCommandBitopNot(dest, source) ==
    WriteStringArg(
        WriteStringArg(WriteArg(MakeRedisBatchCommand(cmd_bitop), cmd_bitop_not),
                       dest),
        source)

\* BITOP OR <DEST> <SRC KEYS> ...
MakeRedisBatchCommandBitopOr(dest, sources) ==
    WriteStringArgs(
        WriteStringArg(WriteArg(MakeRedisBatchCommand(cmd_bitop), cmd_bitop_or),
                       dest),
        sources)

\* No factory has been called.
NotMade ==
    [factory |-> "", key |-> "", expire_in |-> NoDuration, sources |-> <<>>,
     command |-> BatchCommand(NoReq)]

\* ------------------------------------------------------------------- calls
\* What `last` keeps of a call.
Result(op, req, w) ==
    [op |-> op, req |-> req,
     preOpen |-> client # Nil, prePending |-> Len(pipeline), preTimeout |-> Timeout,
     preClient |-> client,
     reply |-> w.ret, err |-> w.err, out |-> w.out, batch |-> w.batch,
     backend |-> w.backend, events |-> w.events, dialed |-> w.dialed]

\* The object's state after the call.
Becomes(w) ==
    /\ client' = w.client
    /\ Timeout' = w.Timeout
    /\ live' = w.live
    /\ pipeline' = w.pipeline
    /\ sent' = w.sent
    /\ gotten' = w.gotten
    /\ UNCHANGED kind
    /\ UNCHANGED tools

Init ==
    /\ kind \in {"redis", "thrift"}
    /\ client = Nil
    /\ Timeout \in Timeouts
    /\ live = {}
    /\ pipeline = <<>>
    /\ sent = <<>>
    /\ gotten = <<>>
    /\ held = TRUE
    /\ last = [op |-> "makeLazy", req |-> NoReq,
               preOpen |-> FALSE, prePending |-> 0, preTimeout |-> Timeout,
               preClient |-> Nil,
               reply |-> NoReply, err |-> NoError, out |-> 0, batch |-> NoBatch,
               backend |-> <<>>, events |-> <<>>, dialed |-> <<>>]
    /\ watch = MakeStopWatch
    /\ clock = 1
    /\ lastWatch = [op |-> "MakeStopWatch", prev |-> "", pre |-> MakeStopWatch,
                    now |-> clock]
    /\ made = NotMade

Redis == kind = "redis" /\ held

Thrift == kind = "thrift" /\ held

\* A dial that succeeds needs a free handle.
CanDial(dialOk) == dialOk => Cardinality(live) < MaxHandles

\* Batches a caller may submit: fresh commands, none with a reply.
Batches ==
    UNION {[1..n -> {BatchCommand(r) : r \in Reqs}] : n \in 0..MaxBatch}

OpenCall ==
    /\ Redis
    /\ \E dialOk \in BOOLEAN :
        /\ CanDial(dialOk)
        /\ LET w == Open(World, dialOk)
           IN Becomes(w) /\ last' = Result("Open", NoReq, w)
    /\ UNCHANGED held

CloseCall ==
    /\ Redis
    /\ \E closeErr \in {NoError, CloseError} :
        LET w == Close(World, closeErr)
        IN Becomes(w) /\ last' = Result("Close", NoReq, w)
    /\ UNCHANGED held

AppendCall ==
    /\ Redis
    /\ \E req \in Reqs :
        \E w \in AppendOutcomes(World, req) :
           /\ Len(w.sent) <= MaxSent
           /\ Becomes(w) /\ last' = Result("Append", req, w)
    /\ UNCHANGED held

GetReplyCall ==
    /\ Redis
    /\ \E w \in GetReplyOutcomes(World, ReplyKinds) :
        Becomes(w) /\ last' = Result("GetReply", NoReq, w)
    /\ UNCHANGED held

CmdCall ==
    /\ Redis
    /\ \E req \in Reqs :
        \E w \in Cmd(World, req) :
           /\ Len(w.sent) <= MaxSent
           /\ Becomes(w) /\ last' = Result("Cmd", req, w)
    /\ UNCHANGED held

PingCall ==
    /\ Redis
    /\ \E w \in Ping(World) :
           /\ Len(w.sent) <= MaxSent
           /\ Becomes(w) /\ last' = Result("Ping", PingReq, w)
    /\ UNCHANGED held

BatchCommandsCall ==
    /\ Redis
    /\ \E commands \in Batches :
        \E w \in BatchCommands(World, commands) :
           /\ Len(w.sent) <= MaxSent
           /\ Becomes(w) /\ last' = Result("BatchCommands", NoReq, w)
    /\ UNCHANGED held

ClientCall ==
    /\ Redis
    /\ \E dialOk \in BOOLEAN :
        LET w == Client(World, dialOk)
        IN Becomes(w) /\ last' = Result("Client", NoReq, w)
    /\ UNCHANGED held

\* The aggressive factory is the lazy factory followed by Ping: it runs on
\* the object as the lazy factory left it.
MakeAgressiveRedisCall ==
    /\ Redis
    /\ last.op = "makeLazy"
    /\ \E w \in makeAgressiveRedisConnection(World) :
        /\ Becomes(w)
        /\ last' = Result("makeAgressive", NoReq, w)
        /\ held' = (w.out # 0)

ThriftOpenCall ==
    /\ Thrift
    /\ \E dialOk \in BOOLEAN :
        /\ CanDial(dialOk)
        /\ LET w == ThriftOpen(World, dialOk)
           IN Becomes(w) /\ last' = Result("Open", NoReq, w)
    /\ UNCHANGED held

ThriftSafeOpenCall ==
    /\ Thrift
    /\ \E dialOk \in BOOLEAN :
        LET w == ThriftSafeOpen(World, dialOk)
        IN Becomes(w) /\ last' = Result("SafeOpen", NoReq, w)
    /\ UNCHANGED held

ThriftCloseCall ==
    /\ Thrift
    /\ \E closeErr \in {NoError, CloseError} :
        LET w == ThriftClose(World, closeErr)
        IN Becomes(w) /\ last' = Result("Close", NoReq, w)
    /\ UNCHANGED held

ThriftPingCall ==
    /\ Thrift
    /\ LET w == ThriftPing(World)
       IN Becomes(w) /\ last' = Result("Ping", NoReq, w)
    /\ UNCHANGED held

ThriftForwardCall ==
    /\ Thrift
    /\ \E dialOk \in BOOLEAN, opOk \in BOOLEAN :
        LET w == ThriftForward(World, dialOk, opOk)
        IN Becomes(w) /\ last' = Result("Forward", NoReq, w)
    /\ UNCHANGED held

MakeAgressiveThriftCall ==
    /\ Thrift
    /\ last.op = "makeLazy"
    /\ LET w == makeAgressiveThriftConnection(World)
       IN /\ Becomes(w)
          /\ last' = Result("makeAgressive", NoReq, w)
          /\ held' = (w.out # 0)

Next ==
    \/ OpenCall
    \/ CloseCall
    \/ AppendCall
    \/ GetReplyCall
    \/ CmdCall
    \/ PingCall
    \/ BatchCommandsCall
    \/ ClientCall
    \/ MakeAgressiveRedisCall
    \/ ThriftOpenCall
    \/ ThriftSafeOpenCall
    \/ ThriftCloseCall
    \/ ThriftPingCall
    \/ ThriftForwardCall
    \/ MakeAgressiveThriftCall

Spec == Init /\ [][Next]_vars

\* --------------------------------------------------- calls on a StopWatch
WatchResult(op) ==
    [op |-> op, prev |-> lastWatch.op, pre |-> watch, now |-> clock]

MakeStopWatchCall ==
    /\ watch' = MakeStopWatch
    /\ lastWatch' = WatchResult("MakeStopWatch")
    /\ UNCHANGED <<clock, made, conn>>

StartCall ==
    /\ watch' = Start(watch, clock)
    /\ lastWatch' = WatchResult("Start")
    /\ UNCHANGED <<clock, made, conn>>

StopCall ==
    /\ watch' = Stop(watch, clock)
    /\ lastWatch' = WatchResult("Stop")
    /\ UNCHANGED <<clock, made, conn>>

LogDurationCall ==
    /\ Len(watch.Logger) < MaxLines
    /\ watch' = LogDuration(watch)
    /\ lastWatch' = WatchResult("LogDuration")
    /\ UNCHANGED <<clock, made, conn>>

\* Time passes between two calls.
Tick ==
    /\ clock < MaxClock
    /\ clock' \in (clock + 1)..MaxClock
    /\ UNCHANGED <<watch, lastWatch, made, conn>>

StopWatchNext ==
    \/ MakeStopWatchCall
    \/ StartCall
    \/ StopCall
    \/ LogDurationCall
    \/ Tick

SpecStopWatch == Init /\ [][StopWatchNext]_vars

\* ------------------------------------------ calls of the command factories
\* Keys a caller names.
Keys == {"dest", "src", "k"}
\* Source lists of a variadic factory.
SourceLists == UNION {[1..n -> Keys] : n \in 0..MaxSources}

Made(factory, key, expire_in, sources, command) ==
    [factory |-> factory, key |-> key, expire_in |-> expire_in,
     sources |-> sources, command |-> command]

ExpireInCall ==
    /\ \E key \in Keys, expire_in \in Durations :
        made' = Made("ExpireIn", key, expire_in, <<>>,
                     MakeRedisBatchCommandExpireIn(key, expire_in))
    /\ UNCHANGED <<watch, clock, lastWatch, conn>>

BitopAndCall ==
    /\ \E dest \in Keys, sources \in SourceLists :
        made' = Made("BitopAnd", dest, NoDuration, sources,
                     MakeRedisBatchCommandBitopAnd(dest, sources))
    /\ UNCHANGED <<watch, clock, lastWatch, conn>>

BitopNotCall ==
    /\ \E dest \in Keys, source \in Keys :
        made' = Made("BitopNot", dest, NoDuration, <<source>>,
                     MakeRedisBatchCommandBitopNot(dest, source))
    /\ UNCHANGED <<watch, clock, lastWatch, conn>>

BitopOrCall ==
    /\ \E dest \in Keys, sources \in SourceLists :
        made' = Made("BitopOr", dest, NoDuration, sources,
                     MakeRedisBatchCommandBitopOr(dest, sources))
    /\ UNCHANGED <<watch, clock, lastWatch, conn>>

FactoriesNext ==
    \/ ExpireInCall
    \/ BitopAndCall
    \/ BitopNotCall
    \/ BitopOrCall

SpecFactories == Init /\ [][FactoriesNext]_vars

\* ================================================================== claims
\* The four error contents the specification calls transient.
FourTransient == {"auth", "loading", "parse", "queue_empty"}
\* An error reply whose content is none of the four (and not the reply
\* GetReply makes up for a closed connection).
IsFatalReply(r) ==
    r.type = "error" /\ r.err \notin FourTransient \cup {ErrConnectionIsClosed}
\* The call made events e of the given name.
Count(events, e) == Cardinality({i \in 1..Len(events) : events[i] = e})
LastBatch == last.op = "BatchCommands"
AfterRedis(op) == kind = "redis" /\ last.op = op

\* C1: BatchCommands over N commands on an Open connection whose pipeline
\* holds no undrained command, when no reply of the backend is a fatal
\* error: the call returns no error, every command has a reply, and the
\* reply stored in command i is the backend's i-th reply, which answers
\* command i's own request.
C1_BatchRepliesInSubmissionOrder ==
    (/\ LastBatch
     /\ last.preOpen
     /\ last.prePending = 0
     /\ \A i \in 1..Len(last.backend) : ~IsFatalReply(last.backend[i]))
    => /\ last.err = NoError
       /\ Len(last.backend) = Len(last.batch)
       /\ \A i \in 1..Len(last.batch) :
            /\ last.batch[i].reply # NoReply
            /\ last.batch[i].reply = last.backend[i]
            /\ last.batch[i].reply.req = last.batch[i].req

\* C1 witness: a batch of two different commands on an Open connection with
\* an empty pipeline, both answered, the first by a transient error.
C1_Witness ==
    /\ LastBatch
    /\ last.preOpen
    /\ last.prePending = 0
    /\ Len(last.batch) = 2
    /\ last.batch[1].req # last.batch[2].req
    /\ last.batch[1].reply.err = "loading"
    /\ last.batch[2].reply.type = "status"
    /\ last.err = NoError

\* C2: if the reply stored in the M-th command of a batch is a fatal error,
\* the call returns an error, the connection is Closed, commands M+1..N
\* have no reply (GetReply was issued M times and no more), and commands
\* 1..M-1 keep the replies GetReply returned for them.
C2_FatalReplyStopsBatch ==
    LastBatch =>
        \A m \in 1..Len(last.batch) :
            IsFatalReply(last.batch[m].reply)
            => /\ last.err # NoError
               /\ client = Nil
               /\ Len(last.backend) = m
               /\ Count(last.events, "client_getreply") = m
               /\ \A i \in (m + 1)..Len(last.batch) :
                    last.batch[i].reply = NoReply
               /\ \A i \in 1..(m - 1) :
                    /\ last.batch[i].reply # NoReply
                    /\ last.batch[i].reply = last.backend[i]

\* C2 witness: a batch of two whose first reply is fatal.
C2_Witness ==
    /\ LastBatch
    /\ Len(last.batch) = 2
    /\ IsFatalReply(last.batch[1].reply)
    /\ last.batch[2].reply = NoReply
    /\ last.err = BatchError

\* C3 as claimed: a command has a reply only if every earlier command has
\* a reply that is not an error reply.
C3_Claimed_EarlierRepliesSucceeded ==
    LastBatch =>
        \A j \in 1..Len(last.batch) :
            last.batch[j].reply # NoReply
            => \A i \in 1..(j - 1) :
                /\ last.batch[i].reply # NoReply
                /\ last.batch[i].reply.type # "error"

\* C3 as amended: a command has a reply only if every earlier command has
\* a reply that is a non-error reply or one of the four transient error
\* replies (never a fatal error, never the connection-closed reply).
C3_EarlierRepliesNotFatal ==
    LastBatch =>
        \A j \in 1..Len(last.batch) :
            last.batch[j].reply # NoReply
            => \A i \in 1..(j - 1) :
                /\ last.batch[i].reply # NoReply
                /\ last.batch[i].reply.type = "error"
                    => last.batch[i].reply.err \in FourTransient

\* C3 witness: the second command has a reply although the first command's
\* reply is a transient error.
C3_Witness ==
    /\ LastBatch
    /\ Len(last.batch) = 2
    /\ last.batch[1].reply.type = "error"
    /\ last.batch[1].reply.err \in FourTransient
    /\ last.batch[2].reply # NoReply


\* C4: on a connection that is Open, the k-th GetReply since the pipeline
\* was last empty returned the reply to the k-th request handed to Append
\* since then, for every k up to the number of requests handed over; and the
\* reply GetReply returns is the reply of the underlying client, unmodified.
C4_RepliesInFifoOrder ==
    /\ (kind = "redis" /\ client # Nil)
        => /\ Len(gotten) <= Len(sent)
           /\ \A k \in 1..Len(gotten) : gotten[k] = sent[k]
    /\ (AfterRedis("GetReply") /\ last.backend # <<>>)
        => last.reply = last.backend[1]

\* C4 witness: two different requests were appended and GetReply has
\* returned the replies to both, the connection still Open.
C4_Witness ==
    /\ AfterRedis("GetReply")
    /\ client # Nil
    /\ Len(sent) = 2
    /\ sent[1] # sent[2]
    /\ Len(gotten) = 2
    /\ last.reply.req = sent[2]

\* C5: GetReply on an Open connection returns the reply of the underlying
\* client unchanged, and the connection is Closed afterwards exactly when
\* that reply is an error reply whose content is none of the four transient
\* signals.
C5_ClosedIffFatalReply ==
    (AfterRedis("GetReply") /\ last.preOpen)
    => /\ Len(last.backend) = 1
       /\ last.reply = last.backend[1]
       /\ (client = Nil) <=> (/\ last.backend[1].type = "error"
                              /\ last.backend[1].err \notin FourTransient)
       /\ (client # Nil) => client = last.preClient

\* C5 witness: GetReply returned a parse-error reply and the connection is
\* still Open.
C5_Witness ==
    /\ AfterRedis("GetReply")
    /\ last.preOpen
    /\ last.reply.err = "parse"
    /\ client # Nil

\* No dial and no call into the underlying client among the events.
NoNetworkIO(events) ==
    \A i \in 1..Len(events) :
        events[i] \notin {"dial_ok", "dial_fail", "client_append",
                          "client_getreply", "client_close", "client_op"}

\* C6: GetReply on a Closed connection returns the error reply that carries
\* ErrConnectionIsClosed, dials nothing, reads nothing from the backend, and
\* leaves the connection Closed.
C6_GetReplyOnClosed ==
    (AfterRedis("GetReply") /\ ~last.preOpen)
    => /\ last.reply = [type |-> "error", err |-> ErrConnectionIsClosed,
                        req |-> NoReq]
       /\ NoNetworkIO(last.events)
       /\ last.backend = <<>>
       /\ client = Nil

\* C6 witness: GetReply was called on a Closed connection.
C6_Witness ==
    /\ AfterRedis("GetReply")
    /\ ~last.preOpen
    /\ last.reply.err = ErrConnectionIsClosed

\* C7: after Append on a Closed connection whose dial failed, the connection
\* is Closed, nothing was queued in the backend pipeline, and a GetReply
\* issued next yields the connection-closed reply without a backend reply.
C7_AppendDroppedOnFailedReopen ==
    (/\ AfterRedis("Append")
     /\ ~last.preOpen
     /\ Count(last.events, "dial_fail") > 0)
    => /\ client = Nil
       /\ pipeline = <<>>
       /\ Count(last.events, "client_append") = 0
       /\ \A w \in GetReplyOutcomes(World, ReplyKinds) :
            /\ w.ret.err = ErrConnectionIsClosed
            /\ w.ret.req # last.req
            /\ w.backend = <<>>

\* C7 witness: Append on a Closed connection, the dial failed.
C7_Witness ==
    /\ AfterRedis("Append")
    /\ ~last.preOpen
    /\ last.events = <<"dial_fail", "log_error", "log_warn">>

ObjectState(w) == <<w.client, w.Timeout, w.live, w.pipeline>>

\* C9: Close on a Closed connection (Redis or Thrift) returns no error,
\* does not call the underlying client's close and leaves the connection
\* Closed; and from every state, Close followed by Close leaves the state a
\* single Close leaves.
C9_CloseOnClosedIsNoOp ==
    /\ (last.op = "Close" /\ ~last.preOpen)
        => /\ last.err = NoError
           /\ Count(last.events, "client_close") = 0
           /\ client = Nil
    /\ \A e1 \in {NoError, CloseError}, e2 \in {NoError, CloseError} :
        /\ kind = "redis"
            => /\ ObjectState(Close(Close(World, e1), e2))
                    = ObjectState(Close(World, e1))
               /\ Close(Close(World, e1), e2).err = NoError
        /\ kind = "thrift"
            => /\ ObjectState(ThriftClose(ThriftClose(World, e1), e2))
                    = ObjectState(ThriftClose(World, e1))
               /\ ThriftClose(ThriftClose(World, e1), e2).err = NoError

\* C9 witness: Close was called on a connection that was Closed (after it
\* had been opened at least once).
C9_Witness ==
    /\ last.op = "Close"
    /\ ~last.preOpen
    /\ Timeout = DefaultTimeout
    /\ last.events = <<"log_info">>

\* C10 as claimed: an aggressive factory, when every dial fails, returns an
\* error and no connection.
C10_Claimed_AggressiveFactoryFails ==
    (last.op = "makeAgressive" /\ Count(last.events, "dial_ok") = 0)
    => /\ last.err # NoError
       /\ last.out = 0
       /\ ~held

\* C11: when makeAgressiveRedisConnection fails, the connection is Closed
\* when the factory returns, every handle dialed during the construction
\* has been closed, no connection is returned, and the error returned is the
\* error Ping returned (the Err of the reply to "ping").
C11_FailedAggressiveRedisIsClosed ==
    (AfterRedis("makeAgressive") /\ last.err # NoError)
    => /\ client = Nil
       /\ live = {}
       /\ Count(last.events, "client_close") = Count(last.events, "dial_ok")
       /\ ~held
       /\ last.out = 0
       /\ last.err = last.reply.err

\* C11 witness: the server answered "ping" with a transient error, which
\* left the connection Open; the factory closed it.
C11_Witness ==
    /\ AfterRedis("makeAgressive")
    /\ last.reply.err = "loading"
    /\ last.err = "loading"
    /\ Count(last.events, "client_close") = 1
    /\ client = Nil

\* What a caller sees of a call that returns a reply: the reply and the
\* connection it leaves.
ReplyAndState(w) == <<w.ret, ObjectState(w)>>

\* One Append followed by one GetReply, as two separate calls, under every
\* outcome of the dial and every reply of the backend.
AppendThenGetReply(w, req) ==
    {GetReply(AppendCmd(w, req, dialOk), replyKind) :
        dialOk \in BOOLEAN, replyKind \in ReplyKinds}

\* C12: from every state (Open or Closed, any pipeline contents), for every
\* request, dial outcome and backend reply, Cmd returns the reply and leaves
\* the connection state and pipeline that one Append followed by one
\* GetReply return and leave.
C12_CmdIsAppendThenGetReply ==
    kind = "redis" =>
        \A req \in Reqs :
            {ReplyAndState(w) : w \in Cmd(World, req)}
                = {ReplyAndState(w) : w \in AppendThenGetReply(World, req)}

\* C12 witness: a Cmd on an Open connection with a request already pending;
\* its reply answers the pending request and its own request stays queued.
C12_Witness ==
    /\ AfterRedis("Cmd")
    /\ last.preOpen
    /\ last.prePending > 0
    /\ last.reply.req # last.req
    /\ last.reply.err = NoError
    /\ pipeline # <<>>
    /\ pipeline[Len(pipeline)] = last.req

\* C13: Open on a Closed connection (Redis or Thrift) has two outcomes.
\* Either it returns no error and the connection is Open on the handle the
\* dial produced, or it returns the dial's error unchanged, the connection
\* is still Closed and no handle was obtained.
C13_OpenOnClosedSucceedsOrFails ==
    (last.op = "Open" /\ ~last.preOpen)
    => \/ /\ last.err = NoError
          /\ client # Nil
          /\ client \in live
          /\ last.events = <<"dial_ok", "log_info">>
       \/ /\ last.err = DialError
          /\ client = Nil
          /\ last.events = <<"dial_fail", "log_error">>
          /\ Count(last.events, "dial_ok") = 0

\* C13 witness: an Open on a Closed Redis connection whose dial failed.
C13_Witness ==
    /\ AfterRedis("Open")
    /\ ~last.preOpen
    /\ last.err = DialError
    /\ client = Nil

\* The position of the first event e of a call, 0 if there is none.
FirstAt(events, e) ==
    IF \E i \in 1..Len(events) : events[i] = e
    THEN CHOOSE i \in 1..Len(events) :
            /\ events[i] = e
            /\ \A j \in 1..(i - 1) : events[j] # e
    ELSE 0

\* C14: after a forwarded ThriftConnection operation the connection is Open
\* iff the call returned no error; when SafeOpen fails the underlying
\* operation is not invoked and the open error is returned; when the
\* underlying operation fails the connection is closed, after the operation,
\* and the operation's error is returned; on success the underlying result
\* is returned.
C14_ForwardedOperation ==
    (kind = "thrift" /\ last.op = "Forward")
    => /\ (client # Nil) <=> (last.err = NoError)
       /\ last.err \in {NoError, DialError, OpError}
       /\ last.err = DialError
            => /\ ~last.preOpen
               /\ Count(last.events, "dial_fail") = 1
               /\ Count(last.events, "client_op") = 0
               /\ last.out = 0
       /\ last.err = OpError
            => /\ Count(last.events, "client_op") = 1
               /\ Count(last.events, "client_close") = 1
               /\ FirstAt(last.events, "client_op")
                    < FirstAt(last.events, "client_close")
               /\ client = Nil
       /\ last.err = NoError
            => /\ Count(last.events, "client_op") = 1
               /\ Count(last.events, "client_close") = 0
               /\ last.out = OpResult
               /\ last.preOpen => client = last.preClient

\* C14 witness: a forwarded operation on an Open connection failed in the
\* underlying client and left the connection Closed.
C14_Witness ==
    /\ kind = "thrift"
    /\ last.op = "Forward"
    /\ last.preOpen
    /\ last.err = OpError
    /\ client = Nil

\* The dial attempts of a call, failed or not.
Dials(events) == Count(events, "dial_ok") + Count(events, "dial_fail")

\* No dial is attempted after the underlying client was closed in the call.
NoDialAfterClose(events) ==
    \A i, j \in 1..Len(events) :
        (events[i] = "client_close" /\ i < j)
            => events[j] \notin {"dial_ok", "dial_fail"}

\* The calls C15 is about.
ReconnectingCall ==
    \/ kind = "redis"
          /\ last.op \in {"Append", "GetReply", "Cmd", "Ping", "BatchCommands"}
    \/ kind = "thrift" /\ last.op = "Forward"

RanClosed == kind = "redis" /\ ~last.preOpen /\ Count(last.events, "dial_ok") = 0

\* C16 as claimed: against a Closed connection that was not reopened,
\* GetReply and Cmd return the connection-closed error reply, Ping returns
\* the connection-closed error and BatchCommands returns a non-nil error.
C16_Claimed_ClosedErrorSurfaced ==
    RanClosed
    => /\ last.op \in {"GetReply", "Cmd"} => last.reply = ClosedReply
       /\ last.op = "Ping" => last.err = ErrConnectionIsClosed
       /\ last.op = "BatchCommands" => last.err # NoError

\* C16 (corrected): against a Closed connection that was not reopened,
\* GetReply and Cmd return the connection-closed error reply, Ping returns
\* the connection-closed error, and BatchCommands with at least one command
\* returns a non-nil error with the connection-closed error reply in its
\* first command; BatchCommands with no command returns nil; Append returns
\* nothing, logs a warning and queues nothing.
C16_ClosedErrorSurfaced ==
    RanClosed
    => /\ last.op \in {"GetReply", "Cmd"} => last.reply = ClosedReply
       /\ last.op = "Ping" => last.err = ErrConnectionIsClosed
       /\ (last.op = "BatchCommands" /\ Len(last.batch) > 0)
            => /\ last.err = BatchError
               /\ last.batch[1].reply = ClosedReply
       /\ (last.op = "BatchCommands" /\ Len(last.batch) = 0)
            => last.err = NoError
       /\ last.op = "Append"
            => /\ pipeline = <<>>
               /\ Count(last.events, "log_warn") = 1
               /\ Count(last.events, "client_append") = 0

\* C16 witness: a batch of two commands on a Closed connection, both dials
\* failed, and the call returned its error.
C16_Witness ==
    /\ AfterRedis("BatchCommands")
    /\ ~last.preOpen
    /\ Len(last.batch) = 2
    /\ Count(last.events, "dial_fail") = 2
    /\ last.err = BatchError

\* Every close of the underlying client in the call comes after a warning or
\* error log of the same call.
LoggedBeforeClose(events) ==
    \A i \in 1..Len(events) :
        events[i] = "client_close"
            => \E j \in 1..(i - 1) : events[j] \in {"log_warn", "log_error"}

\* C17: in every call in which the wrapper itself closes the connection
\* because of an error (any call but Close), a log event reporting the error
\* is emitted before the close.
C17_Claimed_LogBeforeCloseOnError ==
    last.op # "Close" => LoggedBeforeClose(last.events)

\* Each Append of a call ends in exactly one of two events: the request is
\* queued in the underlying client, or the failed reopen is logged as a
\* warning and the request is abandoned.
IsAppendMark(e) == e \in {"client_append", "log_warn"}

\* The index-th Append of the last BatchCommands queued its command. All the
\* Appends of the call come before its first GetReply, so the first marks
\* of the call are theirs, in order.
BatchQueued(index) ==
    SelectSeq(last.events, IsAppendMark)[index] = "client_append"

\* C18: BatchCommands assigns a reply to a command only if the command was
\* queued, never to a command whose Append was abandoned, and (on a
\* connection that had nothing pending before the call) the reply assigned
\* is the backend's reply to that very command.
C18_Claimed_ReplyOnlyForSentCommand ==
    (AfterRedis("BatchCommands") /\ last.prePending = 0)
    => \A i \in 1..Len(last.batch) :
            last.batch[i].reply # NoReply
                => /\ BatchQueued(i)
                   /\ last.batch[i].reply.req = last.batch[i].req

\* C19: SafeOpen on an Open connection returns no error, performs no dial
\* (nor any other step) and leaves the held client handle unchanged; on a
\* Closed connection SafeOpen returns what Open returns and leaves the state
\* Open leaves, whether the dial succeeds or fails.
C19_SafeOpen ==
    kind = "thrift"
    => /\ (last.op = "SafeOpen" /\ last.preOpen)
            => /\ last.err = NoError
               /\ last.events = <<>>
               /\ client = last.preClient
               /\ client # Nil
       /\ (last.op = "SafeOpen" /\ ~last.preOpen)
            => \/ last.err = NoError /\ client # Nil
                    /\ last.events = <<"dial_ok", "log_info">>
               \/ last.err = DialError /\ client = Nil
                    /\ last.events = <<"dial_fail", "log_error">>
       /\ ThriftIsClosed(World)
            => \A dialOk \in BOOLEAN :
                    ThriftSafeOpen(World, dialOk) = ThriftOpen(World, dialOk)
       /\ ThriftIsOpen(World)
            => \A dialOk \in BOOLEAN :
                    ThriftSafeOpen(World, dialOk) = World

\* C19 witness: SafeOpen was called on an Open connection.
C19_Witness ==
    /\ kind = "thrift"
    /\ last.op = "SafeOpen"
    /\ last.preOpen
    /\ client # Nil

\* C20: after every Open, failed or not, of either kind of connection the
\* Timeout is not zero; every dial of every call is given a non-zero
\* timeout, which is 10 (seconds) when the Timeout was zero before the call
\* and is the value the Timeout field holds after the call; and a non-zero
\* Timeout is changed by no call.
C20_TimeoutDefaultsToTen ==
    /\ last.op = "Open" => Timeout # 0
    /\ \A i \in 1..Len(last.dialed) :
            /\ last.dialed[i] # 0
            /\ last.dialed[i] = Timeout
            /\ last.preTimeout = 0 => last.dialed[i] = DefaultTimeout
    /\ Len(last.dialed) = Dials(last.events)
    /\ last.preTimeout # 0 => Timeout = last.preTimeout
    /\ last.preTimeout = 0
            => Timeout = IF Len(last.dialed) > 0 THEN DefaultTimeout ELSE 0

\* C20 witness: an Open with a zero Timeout failed to dial; the dial was
\* given 10 seconds.
C20_Witness ==
    /\ last.op = "Open"
    /\ last.preTimeout = 0
    /\ last.err = DialError
    /\ last.dialed = <<DefaultTimeout>>
    /\ Timeout = DefaultTimeout

\* C21: a StopWatch never started has a zero Duration and has logged
\* nothing, whatever was called on it; Start sets Time to the current
\* instant and resets Duration to zero; Stop sets Duration to the time
\* elapsed since Start if Start was called and changes nothing otherwise;
\* LogDuration writes exactly one line if Duration is strictly positive and
\* none if it is zero, and changes neither Time nor Duration.
C21_StopWatch ==
    /\ watch.Time = ZeroTime => (watch.Duration = 0 /\ watch.Logger = <<>>)
    /\ lastWatch.op = "Start"
        => watch = [lastWatch.pre EXCEPT !.Time = lastWatch.now, !.Duration = 0]
    /\ (lastWatch.op = "Stop" /\ lastWatch.pre.Time = ZeroTime)
        => watch = lastWatch.pre
    /\ (lastWatch.op = "Stop" /\ lastWatch.pre.Time # ZeroTime)
        => watch = [lastWatch.pre EXCEPT
                        !.Duration = lastWatch.now - lastWatch.pre.Time]
    /\ lastWatch.op = "LogDuration"
        => /\ watch.Time = lastWatch.pre.Time
           /\ watch.Duration = lastWatch.pre.Duration
           /\ Len(watch.Logger) = Len(lastWatch.pre.Logger)
                + (IF lastWatch.pre.Duration > 0 THEN 1 ELSE 0)
           /\ lastWatch.pre.Duration > 0
                => watch.Logger[Len(watch.Logger)] = lastWatch.pre.Duration

\* C21 witness: LogDuration right after Stop on a StopWatch never started,
\* at a later instant than its making.
C21_Witness ==
    /\ lastWatch.op = "LogDuration"
    /\ lastWatch.prev = "Stop"
    /\ watch.Time = ZeroTime
    /\ clock > 1
    /\ watch.Logger = <<>>

\* C22: MakeRedisBatchCommandExpireIn(key, d), for d in [k seconds, k + 1
\* seconds) with k >= 0, builds an EXPIRE command with exactly two
\* arguments, the key and then k in base 10, and no reply.
C22_Claimed_ExpireInTruncates ==
    made.factory = "ExpireIn"
    => /\ made.command.req.cmd = "EXPIRE"
       /\ Len(made.command.req.args) = 2
       /\ made.command.req.args[1] = made.key
       /\ made.command.req.args[2] = ToString(made.expire_in.sec)
       /\ made.command.reply = NoReply

\* C23: MakeRedisBatchCommandBitopNot(dest, src) yields a BITOP command with
\* exactly the 3 arguments NOT, dest, src in that order;
\* MakeRedisBatchCommandBitopAnd / BitopOr(dest, sources...) yield exactly
\* 2 + len(sources) arguments: AND / OR, dest, then the sources in the order
\* given; every factory returns a command with no reply.
C23_BitopArgumentOrder ==
    /\ made.factory = "BitopNot"
        => /\ made.command.req.cmd = "BITOP"
           /\ Len(made.command.req.args) = 3
           /\ made.command.req.args = <<"NOT", made.key, made.sources[1]>>
    /\ made.factory \in {"BitopAnd", "BitopOr"}
        => /\ made.command.req.cmd = "BITOP"
           /\ Len(made.command.req.args) = 2 + Len(made.sources)
           /\ made.command.req.args[1]
                = (IF made.factory = "BitopAnd" THEN "AND" ELSE "OR")
           /\ made.command.req.args[2] = made.key
           /\ \A i \in 1..Len(made.sources) :
                made.command.req.args[2 + i] = made.sources[i]
    /\ made.factory # "" => made.command.reply = NoReply

\* C23 witness: BitopNot("dest", "src") was built.
C23_Witness ==
    /\ made.factory = "BitopNot"
    /\ made.key = "dest"
    /\ made.sources = <<"src">>
    /\ made.command.req.args = <<"NOT", "dest", "src">>

\* C24: whenever BatchCommands returns no error for a non-empty batch
\* started with nothing pending in the pipeline, every command of the batch
\* was queued and the reply stored in each command is the backend's reply
\* to that same command.
C24_Claimed_SuccessMeansOwnReplies ==
    (AfterRedis("BatchCommands") /\ last.err = NoError
        /\ Len(last.batch) > 0 /\ last.prePending = 0)
    => \A i \in 1..Len(last.batch) :
            /\ BatchQueued(i)
            /\ last.batch[i].reply.type # "nil"
            /\ last.batch[i].reply.req = last.batch[i].req

\* The requests the last call itself handed to Append.
OwnRequests ==
    CASE last.op = "BatchCommands"
            -> {last.batch[i].req : i \in 1..Len(last.batch)}
      [] last.op = "makeAgressive" -> {PingReq}
      [] OTHER -> {last.req}

\* The call reopened a Closed connection.
Reopened == ~last.preOpen /\ Count(last.events, "dial_ok") > 0

\* C25: replies never cross a close. A Closed RedisConnection has nothing
\* pending; in a call that reopens a Closed connection every reply the
\* backend gives answers a request appended by that call after the reopen
\* (or is the empty-queue error), never one appended before the close, and
\* what is pending afterwards are requests of that call; the first reply
\* after the reopen answers the first request queued since the reopen.
C25_RepliesNeverCrossClose ==
    kind = "redis"
    => /\ client = Nil => (pipeline = <<>> /\ sent = <<>>)
       /\ Reopened
            => /\ \A i \in 1..Len(last.backend) :
                    last.backend[i].req \in OwnRequests \cup {NoReq}
               /\ \A i \in 1..Len(pipeline) : pipeline[i] \in OwnRequests
               /\ Len(pipeline) + Len(last.backend)
                    <= Count(last.events, "client_append")
                        + Count(last.events, "client_getreply")
               /\ last.op \in {"Open", "Client"} => pipeline = <<>>
               /\ last.op = "Append" => pipeline = <<last.req>>
               /\ last.op \in {"Cmd", "Ping"}
                    => /\ last.reply.req = last.req
                       /\ pipeline = <<>>
               /\ (last.op = "BatchCommands" /\ last.backend # <<>>)
                    => \E i \in 1..Len(last.batch) :
                         /\ BatchQueued(i)
                         /\ \A j \in 1..(i - 1) : ~BatchQueued(j)
                         /\ last.backend[1].req = last.batch[i].req
       /\ gotten # <<>>
            => /\ Len(gotten) <= Len(sent)
               /\ \A i \in 1..Len(gotten) : gotten[i] \in {sent[i], NoReq}

\* C25 witness: a Cmd reopened a Closed connection that had dialed before
\* (its zero Timeout had been replaced), and the reply it returned answers
\* its own request.
C25_Witness ==
    /\ AfterRedis("Cmd")
    /\ Reopened
    /\ last.preTimeout = DefaultTimeout
    /\ last.reply.req = last.req
    /\ last.reply.err = NoError
    /\ pipeline = <<>>

\* C26: a connection never leaks a client handle: every handle dialed and
\* not closed is the one the connection holds.
C26_Claimed_NoLeakedHandle ==
    \A h \in live : h = client

\* Close as the connection's kind defines it.
CloseOf(w, closeErr) ==
    IF kind = "redis" THEN Close(w, closeErr) ELSE ThriftClose(w, closeErr)

\* C27: Close on an Open connection (Redis or Thrift) ends Closed whether
\* or not the underlying client's close reports an error; the underlying
\* close is invoked exactly once, on the handle that was held, and what it
\* reports (an error or nil) is what Close returns.
C27_CloseEndsClosed ==
    /\ (last.op = "Close" /\ last.preOpen)
        => /\ client = Nil
           /\ Count(last.events, "client_close") = 1
           /\ last.preClient \notin live
           /\ last.err \in {NoError, CloseError}
    /\ client # Nil
        => \A closeErr \in {NoError, CloseError} :
            /\ CloseOf(World, closeErr).client = Nil
            /\ CloseOf(World, closeErr).err = closeErr
            /\ Count(CloseOf(World, closeErr).events, "client_close") = 1

\* C27 witness: Close on an Open Thrift connection returned the error of
\* the underlying close and left the connection Closed.
C27_Witness ==
    /\ kind = "thrift"
    /\ last.op = "Close"
    /\ last.preOpen
    /\ last.err = CloseError
    /\ client = Nil

====
